---- MODULE Spec2Model ----
(***************************************************************************)
(* Model of the scaffold tool's transactional file-operation manager:      *)
(* createProject/main (src/scaffold.js), Cleanup (src/utils/cleanup.js)    *)
(* and the two written variants of the security helper                     *)
(* (src/utils/security.js: SecurityManager and Security).                  *)
(*                                                                         *)
(* Strings are sequences of one-character strings, so that path.resolve,   *)
(* String.startsWith and the sanitizers are computed, not assumed.         *)
(***************************************************************************)
EXTENDS Naturals, Sequences, FiniteSets, TLC

----------------------------------------------------------------------------
(* Strings and the lexical path functions of node's path module (posix).   *)

StartsWith(s, prefix) ==
  /\ Len(s) >= Len(prefix)
  /\ SubSeq(s, 1, Len(prefix)) = prefix

RECURSIVE SplitAcc(_, _, _, _)
SplitAcc(s, i, cur, acc) ==
  IF i > Len(s)
    THEN (IF cur = <<>> THEN acc ELSE Append(acc, cur))
    ELSE IF s[i] = "/"
      THEN SplitAcc(s, i + 1, <<>>, IF cur = <<>> THEN acc ELSE Append(acc, cur))
      ELSE SplitAcc(s, i + 1, Append(cur, s[i]), acc)

\* The non-empty segments of s between "/" separators.
Segments(s) == SplitAcc(s, 1, <<>>, <<>>)

isAbsolute(s) == Len(s) > 0 /\ s[1] = "/"

RECURSIVE NormAcc(_, _, _, _)
NormAcc(segs, i, abs, acc) ==
  IF i > Len(segs) THEN acc
  ELSE IF segs[i] = <<".">> THEN NormAcc(segs, i + 1, abs, acc)
  ELSE IF segs[i] = <<".", ".">>
    THEN IF Len(acc) > 0 /\ acc[Len(acc)] # <<".", ".">>
           THEN NormAcc(segs, i + 1, abs, SubSeq(acc, 1, Len(acc) - 1))
           ELSE IF abs THEN NormAcc(segs, i + 1, abs, acc)
                       ELSE NormAcc(segs, i + 1, abs, Append(acc, segs[i]))
    ELSE NormAcc(segs, i + 1, abs, Append(acc, segs[i]))

RECURSIVE JoinAcc(_, _, _)
JoinAcc(segs, i, acc) ==
  IF i > Len(segs) THEN acc
  ELSE JoinAcc(segs, i + 1, (IF i = 1 THEN acc ELSE acc \o <<"/">>) \o segs[i])

\* path.normalize: "." and ".." segments resolved lexically.
normalize(s) ==
  LET abs == isAbsolute(s)
      segs == NormAcc(Segments(s), 1, abs, <<>>)
  IN IF abs THEN JoinAcc(segs, 1, <<"/">>)
     ELSE IF segs = <<>> THEN <<".">> ELSE JoinAcc(segs, 1, <<>>)

\* path.join(a, b)
join(a, b) == normalize(a \o <<"/">> \o b)

\* process.env.HOME and process.cwd() of the modelled run.
homeDir == <<"/", "h", "/", "u">>
cwd == homeDir

\* path.resolve(p): absolute, normalized, relative paths joined to cwd.
resolve(p) == IF isAbsolute(p) THEN normalize(p) ELSE normalize(cwd \o <<"/">> \o p)

\* path.basename(p) / path.dirname(p)
basename(p) ==
  LET segs == Segments(p) IN IF segs = <<>> THEN <<>> ELSE segs[Len(segs)]

dirname(p) ==
  LET segs == Segments(p)
      abs == isAbsolute(p)
      init == IF segs = <<>> THEN <<>> ELSE SubSeq(segs, 1, Len(segs) - 1)
  IN IF abs THEN JoinAcc(init, 1, <<"/">>)
     ELSE IF init = <<>> THEN <<".">> ELSE JoinAcc(init, 1, <<>>)

----------------------------------------------------------------------------
(* Inputs of a run.                                                        *)

\* The two written variants of src/utils/security.js.
Impls == {"SecurityManager", "Security"}

\* Number of defaultFiles keys the model scaffolds.
MaxFiles == 2

\* Keys of defaultFiles, in insertion order (a sublist of the eight).
AllDefaultFiles ==
  << <<"i", "n", "d", "e", "x", ".", "h", "t", "m", "l">>,
     <<".", "n", "v", "m", "r", "c">>,
     <<"p", "a", "c", "k", "a", "g", "e", ".", "j", "s", "o", "n">> >>

defaultFiles == SubSeq(AllDefaultFiles, 1, MaxFiles)

\* The content createProject's switch gives a file (scaffold.js:139-215).
contentOf(file) ==
  IF file = <<".", "n", "v", "m", "r", "c">> THEN "18"
  ELSE IF file = <<"p", "a", "c", "k", "a", "g", "e", ".", "j", "s", "o", "n">>
    THEN "{package}"
    ELSE ""

\* file.split(".").pop()
RECURSIVE ExtAcc(_, _)
ExtAcc(s, i) ==
  IF i = 0 THEN s
  ELSE IF s[i] = "." THEN SubSeq(s, i + 1, Len(s)) ELSE ExtAcc(s, i - 1)

extension(file) == ExtAcc(file, Len(file))

\* Contents JSON.parse accepts, among the contents of the model.
ValidJson == {"{package}", "18"}

\* validateFileContent of either variant, on the contents of the model: none
\* of them contains "<html", "{"-less css, require(' or eval(.
validateFileContent(variant, content, fileType) ==
  IF fileType = <<"j", "s", "o", "n">> THEN content \in ValidJson
  ELSE IF fileType = <<"h", "t", "m", "l">> THEN FALSE
  ELSE IF variant = "Security" /\ fileType = <<"c", "s", "s">>
    THEN content = "{package}"
    ELSE TRUE

\* Characters [a-zA-Z0-9-_.] that occur in the model's names.
SafeChars ==
  {"a", "b", "c", "d", "e", "f", "g", "h", "i", "j", "k", "l", "m", "n", "o",
   "p", "q", "r", "s", "t", "u", "v", "w", "x", "y", "z", "0", "1", "2", "3",
   "4", "5", "6", "7", "8", "9", "-", "_", "."}

RECURSIVE MapChars(_, _, _)
MapChars(s, i, acc) ==
  IF i > Len(s) THEN acc
  ELSE MapChars(s, i + 1, Append(acc, IF s[i] \in SafeChars THEN s[i] ELSE "_"))

RECURSIVE DropChars(_, _, _, _)
DropChars(s, bad, i, acc) ==
  IF i > Len(s) THEN acc
  ELSE DropChars(s, bad, i + 1, IF s[i] \in bad THEN acc ELSE Append(acc, s[i]))

unnamed_file == <<"u", "n", "n", "a", "m", "e", "d", "_", "f", "i", "l", "e">>

\* sanitizeFileName of the variant in use.
sanitizeFileName(variant, fileName) ==
  IF variant = "SecurityManager"
    THEN LET sanitized == MapChars(fileName, 1, <<>>)
         IN IF sanitized = <<>> THEN unnamed_file ELSE sanitized
    ELSE DropChars(fileName, {"/", "\\", "NUL"}, 1, <<>>)

\* isPathSafe: the resolved path starts with the home directory string.
isPathSafe(targetPath) == StartsWith(resolve(targetPath), homeDir)

\* Answers to main's prompts.
TargetDirs == { <<".">>, <<"/", "h", "/", "u", "x">>, <<"/", "e">> }
ProjectNames == { <<"p">>, <<".", ".">> }

\* crypto.randomBytes(8).toString("hex"), two of its values.
RandomHex == { <<"0", "0">>, <<"f", "f">> }

\* sha256 digest: injective on the contents of the model.
Digest(content) == <<"sha256", content>>

----------------------------------------------------------------------------
(* The filesystem: the project directory's slot and the backup vault.      *)

EmptyTree == [n \in {} |-> ""]

TreeSet(t, name, content) ==
  [n \in DOMAIN t \cup {name} |-> IF n = name THEN content ELSE t[n]]

TreeDel(t, name) == [n \in DOMAIN t \ {name} |-> t[n]]

TreeRestrict(t, names) == [n \in DOMAIN t \cap names |-> t[n]]

\* unzip -o: archive entries written over the directory, other entries kept.
TreeMerge(t, archive) ==
  [n \in DOMAIN t \cup DOMAIN archive |->
     IF n \in DOMAIN archive THEN archive[n] ELSE t[n]]

old_txt == <<"o", "l", "d", ".", "t", "x", "t">>

\* What the project directory's path may hold before the run.
InitialFs ==
  { [kind |-> "absent", tree |-> EmptyTree],
    [kind |-> "dir", tree |-> EmptyTree],
    [kind |-> "file", tree |-> EmptyTree],
    [kind |-> "dir", tree |-> TreeSet(EmptyTree, old_txt, "old")] }

VARIABLES
  impl,        \* which variant of security.js the run uses
  now,         \* the clock reading backup names are made of
  pc,          \* createProject's position
  dir, files,  \* createProject's arguments
  fsKind, tree,\* the project path: "absent" | "dir" | "file", and its entries
  fs0,         \* the project path's state before operation 1
  stray,       \* paths outside the project path that unzip wrote
  vault,       \* backupDir: backup path -> payload
  operations,  \* cleanup.operations, the ledger
  checksums,   \* security.checksums
  idx,         \* position of the file loop in defaultFiles
  sw,          \* the secureWrite call in progress or just ended
  error,       \* the error caught by createProject's catch
  result,      \* what createProject returned
  rb,          \* the rollback() call
  hist         \* what was done so far, in order

vars == <<impl, now, pc, dir, files, fsKind, tree, fs0, stray, vault,
          operations, checksums, idx, sw, error, result, rb, hist>>

Ev(e, p, x) == [ev |-> e, path |-> p, info |-> x]

\* cause: the error first thrown inside secureWrite's try block.
NoWrite == [path |-> <<>>, content |-> "", temp |-> <<>>,
            prior |-> "absent", stage |-> "idle", failedAt |-> "none",
            cause |-> "none"]

\* failed: the entries whose restoring call threw; failures: the entries
\* rollback's inner catch wrote out with logger.error.
NoRollback == [state |-> "idle", i |-> 0, attempted |-> 0,
               ledger |-> <<>>, visited |-> <<>>,
               failed |-> <<>>, failures |-> <<>>]

\* Outcome of one synchronous fs or logger call.
Calls == {"ok", "throw"}

Init ==
  /\ impl \in Impls
  /\ now = 0
  /\ pc = "main"
  /\ dir = <<>>
  /\ files = {}
  /\ \E f \in InitialFs : fsKind = f.kind /\ tree = f.tree /\ fs0 = f
  /\ stray = {}
  /\ vault = [b \in {} |-> ""]
  /\ operations = <<>>
  /\ checksums = [p \in {} |-> ""]
  /\ idx = 0
  /\ sw = NoWrite
  /\ error = "none"
  /\ result = "none"
  /\ rb = NoRollback
  /\ hist = <<>>

----------------------------------------------------------------------------
(* fs.existsSync and isDirectoryNotEmpty on the project path and below it. *)

existsDir == fsKind # "absent"

\* readdirSync throws on a regular file: the catch answers false.
isDirectoryNotEmpty == fsKind = "dir" /\ DOMAIN tree # {}

existsFile(p) == fsKind = "dir" /\ basename(p) \in DOMAIN tree

Snapshot == [kind |-> fsKind, tree |-> tree]

\* The project path lies on the way to the working directory, so it exists
\* and holds at least that directory.
HoldsCwd(d) ==
  LET a == Segments(resolve(d))
      c == Segments(cwd)
  IN Len(a) <= Len(c) /\ SubSeq(c, 1, Len(a)) = a

----------------------------------------------------------------------------
(* Cleanup.createBackup and Cleanup.registerOperation.                     *)

\* `${path.basename(source)}-${timestamp}.bak`, plus ".zip" for a directory.
backupName(source, timestamp, type) ==
  [base |-> basename(source), ts |-> timestamp, zip |-> (type = "dir")]

\* The path zip -r stores for its argument: leading "/" and "../" stripped.
RECURSIVE DropDotDot(_)
DropDotDot(segs) ==
  IF segs # <<>> /\ segs[1] = <<".", ".">> THEN DropDotDot(Tail(segs)) ELSE segs

zipStored(source) == JoinAcc(DropDotDot(Segments(source)), 1, <<>>)

\* What createBackup leaves in the backup directory, written at the clock's
\* reading.
dirPayload(source) ==
  [kind |-> "dir", stored |-> zipStored(source), tree |-> tree, mtime |-> now]

filePayload(source) ==
  [kind |-> "file", content |-> tree[basename(source)], mtime |-> now]

VaultPut(v, name, payload) ==
  [b \in DOMAIN v \cup {name} |-> IF b = name THEN payload ELSE v[b]]

\* An unshift: the operation is put before the entries the ledger has.
registerOperationFirst(ops, operation) == <<operation>> \o ops

\* A push that keeps only the type and the path of the operation.
registerOperationBare(ops, operation) ==
  Append(ops, [type |-> operation.type, path |-> operation.path])

\* this.operations.push({...operation, operationId, timestamp})
registerOperation(ops, operation) == Append(ops, operation)

\* createProject going on to fs.rmSync whether or not createBackup threw.
afterDirBackupIgnoringThrow(returned) == "rmDir"

\* Where createProject goes after createBackup(dir, "dir"): a throw reaches
\* the catch, a return reaches fs.rmSync.
afterDirBackup(returned) == IF returned THEN "rmDir" ELSE "catch"

----------------------------------------------------------------------------
(* main and the head of createProject.                                     *)

\* main: the prompts (targetDir re-asked until isPathSafe accepts it), then
\* createProject(path.join(targetDir, projectName), files) up to its first
\* branch.
Main ==
  /\ pc = "main"
  /\ \E targetDir \in TargetDirs, projectName \in ProjectNames,
        selectedFiles \in SUBSET {defaultFiles[k] : k \in 1..Len(defaultFiles)},
        log \in Calls :
       LET projectPath == join(targetDir, projectName) IN
       /\ isPathSafe(resolve(targetDir))
       /\ HoldsCwd(projectPath) => isDirectoryNotEmpty
       /\ dir' = projectPath
       /\ files' = selectedFiles
       /\ hist' = Append(hist, Ev("validateOk", resolve(targetDir), "main"))
       /\ IF log = "throw"
            THEN pc' = "catch" /\ error' = "log"
            ELSE /\ error' = error
                 /\ pc' = IF existsDir
                            THEN IF isDirectoryNotEmpty THEN "promptOverwrite"
                                                        ELSE "rmDir"
                            ELSE "mkdir"
  /\ UNCHANGED <<impl, now, fsKind, tree, fs0, stray, vault, operations,
                 checksums, idx, sw, result, rb>>

\* The two confirmations asked for a non-empty directory.
PromptOverwrite ==
  /\ pc \in {"promptOverwrite", "promptConfirm"}
  /\ \E answer \in BOOLEAN, log \in Calls :
       IF answer
         THEN /\ pc' = IF pc = "promptOverwrite" THEN "promptConfirm"
                                                 ELSE "backupDir"
              /\ UNCHANGED <<error, result>>
         ELSE IF log = "ok"
           THEN pc' = "done" /\ result' = "false" /\ error' = error
           ELSE pc' = "catch" /\ error' = "log" /\ result' = result
  /\ UNCHANGED <<impl, now, dir, files, fsKind, tree, fs0, stray, vault,
                 operations, checksums, idx, sw, rb, hist>>

\* createBackup(dir, "dir") and the registration of the overwriteDir entry.
BackupDir ==
  /\ pc = "backupDir"
  /\ \E zip \in Calls, log \in Calls, logError \in Calls :
       LET backupPath == backupName(dir, now, "dir")
           returned == zip = "ok" /\ log = "ok"
       IN
       /\ returned => logError = "ok"
       /\ vault' = IF zip = "ok" THEN VaultPut(vault, backupPath, dirPayload(dir))
                                 ELSE vault
       /\ pc' = afterDirBackup(returned)
       /\ IF returned
            THEN /\ operations' = registerOperation(operations,
                      [type |-> "overwriteDir", path |-> dir,
                       backupPath |-> backupPath])
                 /\ hist' = Append(hist, Ev("backup", dir, Snapshot))
                 /\ error' = error
            ELSE /\ operations' = operations
                 /\ hist' = Append(hist, Ev("backupFail", dir, Snapshot))
                 /\ error' = IF zip = "throw" /\ logError = "ok" THEN "io"
                                                                 ELSE "log"
  /\ UNCHANGED <<impl, now, dir, files, fsKind, tree, fs0, stray, checksums,
                 idx, sw, result, rb>>

\* fs.rmSync(dir, { recursive: true, force: true }): a throw may leave any
\* part of the tree behind.
RmDir ==
  /\ pc = "rmDir"
  /\ \E rm \in Calls, kept \in SUBSET DOMAIN tree :
       IF rm = "ok"
         THEN /\ kept = {}
              /\ fsKind' = "absent"
              /\ tree' = EmptyTree
              /\ hist' = Append(hist, Ev("rmSync", dir, Snapshot))
              /\ pc' = "mkdir"
              /\ error' = error
         ELSE /\ fsKind' = fsKind
              /\ tree' = TreeRestrict(tree, kept)
              /\ hist' = IF kept = DOMAIN tree THEN hist
                         ELSE Append(hist, Ev("rmSync", dir, Snapshot))
              /\ pc' = "catch"
              /\ error' = "io"
  /\ UNCHANGED <<impl, now, dir, files, fs0, stray, vault, operations,
                 checksums, idx, sw, result, rb>>

\* security.secureMkdir(dir) and the registration of the createDir entry.
Mkdir ==
  /\ pc = "mkdir"
  /\ \E mk \in Calls, log \in Calls :
       IF ~isPathSafe(dir)
         THEN /\ mk = "ok"
              /\ hist' = Append(hist, Ev("validateFail", dir, "secureMkdir"))
              /\ pc' = "catch"
              /\ error' = IF log = "ok" THEN "traversal" ELSE "log"
              /\ UNCHANGED <<fsKind, tree, operations, idx>>
         ELSE IF mk = "throw" \/ fsKind = "file"
           THEN /\ hist' = Append(hist, Ev("validateOk", dir, "secureMkdir"))
                /\ pc' = "catch"
                /\ error' = IF log = "ok" THEN "io" ELSE "log"
                /\ UNCHANGED <<fsKind, tree, operations, idx>>
           ELSE /\ fsKind' = "dir"
                /\ tree' = tree
                /\ hist' = hist \o << Ev("validateOk", dir, "secureMkdir"),
                                      Ev("mkdirSync", dir, "") >>
                /\ IF log = "ok"
                     THEN /\ operations' = registerOperation(operations,
                               [type |-> "createDir", path |-> dir])
                          /\ pc' = "files"
                          /\ idx' = 1
                          /\ error' = error
                     ELSE /\ pc' = "catch"
                          /\ error' = "log"
                          /\ UNCHANGED <<operations, idx>>
  /\ UNCHANGED <<impl, now, dir, files, fs0, stray, vault, checksums, sw,
                 result, rb>>

----------------------------------------------------------------------------
(* secureWrite of the two variants, step by step.                          *)

tmp == <<".", "t", "m", "p">>

\* secureWrite writing in place, with no temporary file.
tempPathInPlace(variant, filePath, hex) == filePath

\* The temporary path: `${filePath}.tmp`, or with random hex in Security.
tempPath(variant, filePath, hex) ==
  IF variant = "Security" THEN filePath \o <<".">> \o hex \o tmp
                          ELSE filePath \o tmp

\* The path renameSync moves the temporary file to.
renameTarget(variant, filePath) ==
  IF variant = "Security"
    THEN join(dirname(filePath), sanitizeFileName(variant, basename(filePath)))
    ELSE filePath

\* A write that returns having stored only a part of the content.
writeFileSyncShort(t, p, content) == TreeSet(t, basename(p), "partial")

\* fs.writeFileSync(p, content) that returned.
writeFileSync(t, p, content) == TreeSet(t, basename(p), content)

\* fs.renameSync(from, to) that returned.
renameSync(t, from, to) ==
  TreeSet(TreeDel(t, basename(from)), basename(to), t[basename(from)])

\* generateChecksum(p) when the read succeeds.
generateChecksum(t, p) == Digest(t[basename(p)])

\* this.checksums.set(filePath, checksum)
storeChecksum(sums, t, p) ==
  [q \in DOMAIN sums \cup {p} |-> IF q = p THEN generateChecksum(t, p) ELSE sums[q]]

fileState(p) == IF existsFile(p) THEN tree[basename(p)] ELSE "absent"

\* The catch clause of secureWrite, entered with error e on tree t: what it
\* leaves on disk and what it throws. Security's clause names tempPath, a
\* const of the try block, and so throws a ReferenceError at once;
\* SecurityManager's unlinks `${filePath}.tmp` and logs.
secureWriteCatch(variant, t, filePath, e) ==
  IF variant = "Security"
    THEN { [tree |-> t, error |-> "ReferenceError"] }
    ELSE IF basename(tempPath(variant, filePath, <<>>)) \in DOMAIN t
      THEN { [tree |-> TreeDel(t, basename(tempPath(variant, filePath, <<>>))),
              error |-> e],
             [tree |-> TreeDel(t, basename(tempPath(variant, filePath, <<>>))),
              error |-> "log"],
             [tree |-> t, error |-> "unlink"] }
      ELSE { [tree |-> t, error |-> e], [tree |-> t, error |-> "log"] }

\* secureWrite throws out of stage sw.stage.
WriteFails(t, e, at) ==
  \E c \in secureWriteCatch(impl, t, sw.path, e) :
    /\ tree' = c.tree
    /\ error' = c.error
    /\ pc' = "catch"
    /\ sw' = [sw EXCEPT !.stage = "failed", !.failedAt = at, !.cause = e]

NextSelected(from) ==
  {k \in from..Len(defaultFiles) : defaultFiles[k] \in files}

Min(S) == CHOOSE m \in S : \A n \in S : m <= n

\* One turn of the file loop up to the call of secureWrite and, in Security,
\* its isPathSafe test: an existing file is asked about and backed up.
FileBegin ==
  /\ pc = "files"
  /\ NextSelected(idx) # {}
  /\ \E overwrite \in BOOLEAN, cp \in Calls, log \in Calls :
       LET k == Min(NextSelected(idx))
           file == defaultFiles[k]
           sanitizedPath == join(dir, sanitizeFileName(impl, file))
           content == contentOf(file)
           present == existsFile(sanitizedPath)
           backupPath == backupName(sanitizedPath, now, "file")
           backedUp == present /\ overwrite /\ cp = "ok"
           registered == backedUp /\ log = "ok"
           invalid == content # ""
                        /\ ~validateFileContent(impl, content, extension(file))
           unsafe == impl = "Security" /\ ~isPathSafe(sanitizedPath)
       IN
       /\ ~present => (overwrite /\ cp = "ok")
       /\ vault' = IF backedUp
                     THEN VaultPut(vault, backupPath, filePayload(sanitizedPath))
                     ELSE vault
       /\ operations' = IF registered
                          THEN registerOperation(operations,
                                 [type |-> "overwrite", path |-> sanitizedPath,
                                  backupPath |-> backupPath])
                          ELSE operations
       /\ IF present /\ ~overwrite
            THEN /\ IF log = "ok"
                      THEN pc' = "files" /\ idx' = k + 1 /\ error' = error
                      ELSE pc' = "catch" /\ idx' = k /\ error' = "log"
                 /\ UNCHANGED <<sw, hist>>
            ELSE IF present /\ ~registered
              THEN /\ pc' = "catch"
                   /\ idx' = k
                   /\ error' = IF cp = "throw" THEN "io" ELSE "log"
                   /\ hist' = Append(hist, Ev("backupFail", sanitizedPath,
                                              fileState(sanitizedPath)))
                   /\ sw' = sw
              ELSE IF invalid \/ unsafe
                THEN /\ pc' = "catch"
                     /\ idx' = k
                     /\ error' = IF invalid THEN "invalid" ELSE "ReferenceError"
                     /\ hist' = IF invalid THEN hist
                                ELSE Append(hist, Ev("validateFail", sanitizedPath,
                                                     "secureWrite"))
                     /\ sw' = sw
                ELSE /\ pc' = "write"
                     /\ idx' = k
                     /\ error' = error
                     /\ hist' = hist
                          \o (IF present
                                THEN << Ev("backup", sanitizedPath,
                                           fileState(sanitizedPath)) >>
                                ELSE << >>)
                          \o (IF impl = "Security"
                                THEN << Ev("validateOk", sanitizedPath,
                                           "secureWrite") >>
                                ELSE << >>)
                     /\ sw' = [path |-> sanitizedPath, content |-> content,
                               temp |-> <<>>,
                               prior |-> fileState(sanitizedPath),
                               stage |-> "temp", failedAt |-> "none",
                               cause |-> "none"]
  /\ UNCHANGED <<impl, now, dir, files, fsKind, tree, fs0, stray, checksums,
                 result, rb>>

\* fs.writeFileSync(tempPath, content): returns, throws having written
\* nothing, or throws having written a part.
WriteTemp ==
  /\ pc = "write" /\ sw.stage = "temp"
  /\ \E hex \in RandomHex, w \in {"ok", "throw", "partial"}, log \in Calls :
       LET temp == tempPath(impl, sw.path, hex)
           t1 == IF w = "ok" THEN writeFileSync(tree, temp, sw.content)
                 ELSE IF w = "partial" THEN TreeSet(tree, basename(temp), "partial")
                 ELSE tree
       IN
       /\ hist' = IF w = "throw" THEN hist
                  ELSE Append(hist, Ev("writeTemp", sw.path, ""))
       /\ IF w = "ok" /\ (impl = "SecurityManager" \/ log = "ok")
            THEN /\ tree' = t1
                 /\ sw' = [sw EXCEPT !.stage = "validate", !.temp = temp]
                 /\ UNCHANGED <<pc, error>>
            ELSE \E c \in secureWriteCatch(impl, t1, sw.path,
                                           IF w = "ok" THEN "log" ELSE "io") :
                   /\ tree' = c.tree
                   /\ error' = c.error
                   /\ pc' = "catch"
                   /\ sw' = [sw EXCEPT !.stage = "failed", !.failedAt = "temp",
                                       !.temp = IF w = "throw" THEN <<>> ELSE temp,
                                       !.cause = IF w = "ok" THEN "log" ELSE "io"]
  /\ UNCHANGED <<impl, now, dir, files, fsKind, fs0, stray, vault, operations,
                 checksums, idx, result, rb>>

\* Security: read the temporary file back and compare. SecurityManager:
\* checksum of the temporary file, then the integrity test of an existing
\* target against its stored checksum.
WriteValidate ==
  /\ pc = "write" /\ sw.stage = "validate"
  /\ \E rd \in Calls, rd2 \in Calls :
       LET mismatch == tree[basename(sw.temp)] # sw.content
           tampered == /\ existsFile(sw.path)
                       /\ sw.path \in DOMAIN checksums
                       /\ ~(rd2 = "ok"
                              /\ generateChecksum(tree, sw.path) = checksums[sw.path])
           e == IF rd = "throw" THEN "io"
                ELSE IF impl = "Security" /\ mismatch THEN "validation"
                ELSE IF impl = "SecurityManager" /\ tampered THEN "integrity"
                ELSE "none"
       IN
       /\ (impl = "Security" \/ rd = "throw") => rd2 = "ok"
       /\ IF e = "none"
            THEN /\ sw' = [sw EXCEPT !.stage = "rename"]
                 /\ UNCHANGED <<pc, error, tree>>
            ELSE WriteFails(tree, e, "validate")
  /\ UNCHANGED <<impl, now, dir, files, fsKind, fs0, stray, vault, operations,
                 checksums, idx, result, rb, hist>>

\* fs.renameSync(tempPath, target), and Security's debug line after it.
WriteRename ==
  /\ pc = "write" /\ sw.stage = "rename"
  /\ \E mv \in Calls, log \in Calls :
       LET target == renameTarget(impl, sw.path) IN
       IF mv = "throw"
         THEN /\ log = "ok"
              /\ WriteFails(tree, "io", "rename")
              /\ hist' = hist
         ELSE /\ hist' = Append(hist, Ev("rename", target, ""))
              /\ IF impl = "Security" /\ log = "throw"
                   THEN WriteFails(renameSync(tree, sw.temp, target), "log",
                                   "checksum")
                   ELSE /\ tree' = renameSync(tree, sw.temp, target)
                        /\ sw' = [sw EXCEPT !.stage = "checksum"]
                        /\ UNCHANGED <<pc, error>>
  /\ UNCHANGED <<impl, now, dir, files, fsKind, fs0, stray, vault, operations,
                 checksums, idx, result, rb>>

\* storeChecksum(target), the closing log line, and back in createProject the
\* registration of the create entry.
WriteChecksum ==
  /\ pc = "write" /\ sw.stage = "checksum"
  /\ \E rd \in Calls, log \in Calls :
       LET target == renameTarget(impl, sw.path) IN
       IF rd = "throw"
         THEN /\ log = "ok"
              /\ WriteFails(tree, "io", "checksum")
              /\ UNCHANGED <<checksums, operations, idx>>
         ELSE /\ checksums' = storeChecksum(checksums, tree, target)
              /\ IF log = "throw"
                   THEN /\ WriteFails(tree, "log", "checksum")
                        /\ UNCHANGED <<operations, idx>>
                   ELSE /\ sw' = [sw EXCEPT !.stage = "ok", !.temp = <<>>]
                        /\ operations' = registerOperation(operations,
                               [type |-> "create", path |-> sw.path])
                        /\ idx' = idx + 1
                        /\ pc' = "files"
                        /\ UNCHANGED <<tree, error>>
  /\ UNCHANGED <<impl, now, dir, files, fsKind, fs0, stray, vault, result, rb,
                 hist>>

\* The loop is over: the closing log line and return true.
Finish ==
  /\ pc = "files"
  /\ NextSelected(idx) = {}
  /\ \E log \in Calls :
       IF log = "ok"
         THEN pc' = "done" /\ result' = "true" /\ error' = error
         ELSE pc' = "catch" /\ error' = "log" /\ result' = result
  /\ UNCHANGED <<impl, now, dir, files, fsKind, tree, fs0, stray, vault,
                 operations, checksums, idx, sw, rb, hist>>

----------------------------------------------------------------------------
(* createProject's catch and Cleanup.rollback.                             *)

RECURSIVE ReverseAcc(_, _)
ReverseAcc(s, acc) ==
  IF s = <<>> THEN acc ELSE ReverseAcc(Tail(s), <<Head(s)>> \o acc)

\* rollback iterating this.operations as recorded.
reverseOmitted(ops) == ops

\* Array.prototype.reverse, as rollback applies it to this.operations.
reverse(ops) == ReverseAcc(ops, <<>>)

hasBackup(operation) ==
  /\ "backupPath" \in DOMAIN operation
  /\ operation.backupPath \in DOMAIN vault

\* The guard of the case of rollback's switch that operation selects.
stepApplies(operation) ==
  CASE operation.type = "create" -> existsFile(operation.path)
    [] operation.type = "overwrite" -> hasBackup(operation)
    [] operation.type = "createDir" -> existsDir
    [] operation.type = "overwriteDir" -> hasBackup(operation)
    [] OTHER -> FALSE

\* Where unzip -o backup -d dirname(path) puts the archived directory.
unzipDest(operation) ==
  resolve(join(dirname(operation.path), vault[operation.backupPath].stored))

\* The filesystem call of the case throws whatever the disk does: the file
\* copy without its directory, the unzip onto a regular file.
stepMustThrow(operation) ==
  CASE operation.type = "overwrite" -> fsKind # "dir"
    [] operation.type = "overwriteDir" ->
         unzipDest(operation) = resolve(operation.path) /\ fsKind = "file"
    [] OTHER -> FALSE

\* A case that leaves the project path as it is.
stepKindKept(operation) == fsKind

\* The project path after the case's filesystem call returned.
stepKind(operation) ==
  CASE operation.type = "createDir" -> "absent"
    [] operation.type = "overwriteDir" ->
         IF unzipDest(operation) = resolve(operation.path) THEN "dir" ELSE fsKind
    [] OTHER -> fsKind

\* A case that leaves the files of the directory as they are.
stepTreeUntouched(operation) == tree

\* The files of the directory after the case's filesystem call returned.
stepTree(operation) ==
  CASE operation.type = "create" -> TreeDel(tree, basename(operation.path))
    [] operation.type = "overwrite" ->
         TreeSet(tree, basename(operation.path),
                 vault[operation.backupPath].content)
    [] operation.type = "createDir" -> EmptyTree
    [] operation.type = "overwriteDir" ->
         IF unzipDest(operation) = resolve(operation.path)
           THEN TreeMerge(tree, vault[operation.backupPath].tree)
           ELSE tree
    [] OTHER -> tree

stepStray(operation) ==
  IF operation.type = "overwriteDir"
       /\ unzipDest(operation) # resolve(operation.path)
    THEN stray \cup {unzipDest(operation)}
    ELSE stray

\* What createProject returns once cleanup.rollback() has thrown or returned:
\* its own log lines may throw out of the async function.
Returned(log) == IF log = "ok" THEN "false" ELSE "rejected"

\* this.operationId of Cleanup: crypto.randomBytes(8).toString("hex").
operationId == "cleanup-hex"

\* this.operationId of the logger: null, and setOperationId is never called.
loggerOperationId == "null"

NoData == [k \in {} |-> ""]

\* The entry the logger writes: its own operationId, unless the data the
\* caller passes has an operationId, which the spread puts in its place.
createLogEntry(level, message, data) ==
  [level |-> level,
   operationId |-> IF "operationId" \in DOMAIN data THEN data.operationId
                                                    ELSE loggerOperationId,
   message |-> message]

\* createProject making the directory anew once rollback() is over.
afterRollbackRetried == "mkdir"

\* Where createProject stands once rollback() has returned: at return false.
afterRollback == "done"

\* catch (error): the error is logged, then rollback() is called and runs up
\* to its loop.
Catch ==
  /\ pc = "catch"
  /\ \E logError \in Calls, logStart \in Calls, logFailed \in Calls :
       IF logError = "throw"
         THEN /\ logStart = "ok" /\ logFailed = "ok"
              /\ pc' = "done"
              /\ result' = "rejected"
              /\ UNCHANGED <<operations, rb, hist>>
         ELSE IF logStart = "throw"
           THEN /\ pc' = "done"
                /\ result' = Returned(logFailed)
                /\ rb' = [state |-> "threw", i |-> 1, attempted |-> 0,
                          ledger |-> operations, visited |-> <<>>,
                          failed |-> <<>>, failures |-> <<>>]
                /\ operations' = operations
                /\ hist' = hist
           ELSE /\ logFailed = "ok"
                /\ pc' = "rollback"
                /\ result' = result
                /\ rb' = [state |-> "running", i |-> 1, attempted |-> 0,
                          ledger |-> operations, visited |-> <<>>,
                          failed |-> <<>>, failures |-> <<>>]
                /\ operations' = reverse(operations)
                /\ hist' = Append(hist,
                     Ev("log", dir,
                        createLogEntry("INFO", "Starting rollback operation",
                                       [operationId |-> operationId])))
  /\ UNCHANGED <<impl, now, dir, files, fsKind, tree, fs0, stray, vault,
                 checksums, idx, sw, error>>

\* One turn of rollback's loop: the case of the switch for the next entry of
\* the reversed array, inside its own try/catch.
RollbackStep ==
  /\ pc = "rollback"
  /\ rb.i <= Len(operations)
  /\ \E call \in Calls, logDone \in Calls, logError \in Calls,
        logFailed \in Calls, kept \in SUBSET DOMAIN tree :
       LET operation == operations[rb.i]
           applies == stepApplies(operation)
           acted == applies /\ call = "ok" /\ ~stepMustThrow(operation)
           caught == applies /\ (~acted \/ logDone = "throw")
           aborted == caught /\ logError = "throw"
           partial == applies /\ ~acted /\ operation.type = "createDir"
       IN
       /\ (~applies \/ stepMustThrow(operation)) => call = "ok"
       /\ ~acted => logDone = "ok"
       /\ ~caught => logError = "ok"
       /\ ~aborted => logFailed = "ok"
       /\ ~partial => kept = DOMAIN tree
       /\ fsKind' = IF acted THEN stepKind(operation) ELSE fsKind
       /\ tree' = IF acted THEN stepTree(operation) ELSE TreeRestrict(tree, kept)
       /\ stray' = IF acted THEN stepStray(operation) ELSE stray
       /\ hist' = hist
            \o (IF acted
                  THEN << Ev("rollback", operation.path, operation.type) >>
                  ELSE << >>)
            \o (IF acted /\ logDone = "ok"
                  THEN << Ev("log", operation.path,
                             createLogEntry("DEBUG", "Rolled back", NoData)) >>
                  ELSE << >>)
            \o (IF caught /\ logError = "ok"
                  THEN << Ev("log", operation.path,
                             createLogEntry("ERROR",
                                            "Failed to rollback operation",
                                            [operation |-> operation])) >>
                  ELSE << >>)
       /\ rb' = [rb EXCEPT !.i = rb.i + 1,
                           !.attempted = rb.attempted + 1,
                           !.visited = Append(rb.visited, operation),
                           !.failed = IF applies /\ ~acted
                                        THEN Append(rb.failed, operation)
                                        ELSE rb.failed,
                           !.failures = IF caught /\ logError = "ok"
                                          THEN Append(rb.failures, operation)
                                          ELSE rb.failures,
                           !.state = IF aborted THEN "threw" ELSE rb.state]
       /\ IF aborted
            THEN pc' = "done" /\ result' = Returned(logFailed)
            ELSE UNCHANGED <<pc, result>>
  /\ UNCHANGED <<impl, now, dir, files, fs0, vault, operations, checksums,
                 idx, sw, error>>

\* The loop is over: rollback's closing log line, then createProject's.
RollbackEnd ==
  /\ pc = "rollback"
  /\ rb.i > Len(operations)
  /\ \E logCompleted \in Calls, logInfo \in Calls, logFailed \in Calls :
       /\ logCompleted = "throw" => logInfo = "ok"
       /\ (logCompleted = "ok" /\ logInfo = "ok") => logFailed = "ok"
       /\ rb' = [rb EXCEPT !.state = IF logCompleted = "ok" THEN "completed"
                                                             ELSE "threw"]
       /\ result' = Returned(logFailed)
       /\ pc' = afterRollback
       /\ hist' = IF logCompleted = "ok"
                    THEN Append(hist,
                           Ev("log", dir,
                              createLogEntry("INFO",
                                             "Rollback completed successfully",
                                             [operationId |-> operationId])))
                    ELSE hist
  /\ UNCHANGED <<impl, now, dir, files, fsKind, tree, fs0, stray, vault,
                 operations, checksums, idx, sw, error>>

----------------------------------------------------------------------------
(* The SIGINT and SIGTERM handlers of logger.js.                           *)

Signals == {"SIGINT", "SIGTERM"}

\* The handler logs the shutdown and calls process.exit(0); a throw of its
\* log line ends the process as well. The forward pass and rollback() run
\* without a turn of the event loop, so a signal is taken up while a prompt
\* waits or, having arrived during the pass, once main has returned; after a
\* failed createProject main has called process.exit(1) before that.
handleShutdown ==
  /\ pc \in {"main", "promptOverwrite", "promptConfirm", "done"}
  /\ pc = "done" => result = "true"
  /\ \E signal \in Signals :
       hist' = Append(hist, Ev("signal", dir, signal))
  /\ pc' = "exited"
  /\ UNCHANGED <<impl, now, dir, files, fsKind, tree, fs0, stray, vault,
                 operations, checksums, idx, sw, error, result, rb>>

----------------------------------------------------------------------------
(* Cleanup.createBackup called on its own, as many times as a caller may,  *)
(* with the clock moving between the calls or not.                         *)

MaxBackups == 2

MaxClock == 1

\* Sources of the calls: the first two have the same basename.
BackupSources ==
  { <<"/", "h", "/", "u", "/", "a", "/", "x">>,
    <<"/", "h", "/", "u", "/", "b", "/", "x">>,
    <<"/", "h", "/", "u", "/", "a", "/", "y">> }

BackupInit ==
  /\ impl = "Security"
  /\ now = 0
  /\ pc = "createBackup"
  /\ dir = <<>>
  /\ files = {}
  /\ fsKind = "absent" /\ tree = EmptyTree
  /\ fs0 = [kind |-> "absent", tree |-> EmptyTree]
  /\ stray = {}
  /\ vault = [b \in {} |-> ""]
  /\ operations = <<>>
  /\ checksums = [p \in {} |-> ""]
  /\ idx = 0
  /\ sw = NoWrite
  /\ error = "none"
  /\ result = "none"
  /\ rb = NoRollback
  /\ hist = <<>>

\* createBackup(source, type): the copy or the zip writes the file named by
\* backupName over whatever has that name; a throw of either, or of the
\* debug line after it, is logged and thrown again.
createBackup ==
  /\ pc = "createBackup"
  /\ Len(hist) < MaxBackups
  /\ \E source \in BackupSources, type \in {"file", "dir"},
        call \in Calls, log \in Calls :
       LET backupPath == backupName(source, now, type) IN
       /\ call = "throw" => log = "ok"
       /\ vault' = IF call = "ok"
                     THEN VaultPut(vault, backupPath,
                                   [kind |-> type, source |-> source])
                     ELSE vault
       /\ hist' = Append(hist,
                    Ev(IF call = "ok" /\ log = "ok" THEN "createBackup"
                       ELSE IF call = "ok" THEN "createBackupLogFail"
                       ELSE "createBackupFail",
                       source, backupPath))
  /\ UNCHANGED <<impl, now, pc, dir, files, fsKind, tree, fs0, stray,
                 operations, checksums, idx, sw, error, result, rb>>

\* new Date() gives the next millisecond.
Tick ==
  /\ pc = "createBackup"
  /\ now < MaxClock
  /\ now' = now + 1
  /\ UNCHANGED <<impl, pc, dir, files, fsKind, tree, fs0, stray, vault,
                 operations, checksums, idx, sw, error, result, rb, hist>>

BackupNext ==
  \/ createBackup
  \/ Tick

BackupSpec == BackupInit /\ [][BackupNext]_vars

----------------------------------------------------------------------------
(* new Cleanup(): cleanupOldBackups over what the backup directory holds   *)
(* when the module is loaded.                                              *)

day == 24 * 60 * 60 * 1000

maxBackupAge == 7 * day

\* The clock reading at module load.
LoadTime == 10 * day

\* Ages of the backups found: older than the limit, exactly at it, younger.
BackupAges == {8 * day, 7 * day, 1 * day}

StoredBackups ==
  { backupName(<<"p">>, 0, "dir"), backupName(<<"q">>, 0, "dir"),
    backupName(<<"x">>, 0, "file") }

\* Every backup directory over StoredBackups, each file with its mtime.
BackupDirs ==
  UNION { [S -> {[kind |-> "file", mtime |-> LoadTime - a] : a \in BackupAges}]
          : S \in SUBSET StoredBackups }

\* The orders fs.readdirSync may list the set S in.
Orderings(S) ==
  { f \in [1..Cardinality(S) -> S] :
      \A i, j \in 1..Cardinality(S) : i # j => f[i] # f[j] }

\* An unlink of every file that has an age at all.
isExpiredAtAnyAge(age) == age > 0

\* An unlink of every file, whatever its age.
isExpiredAlways(age) == TRUE

\* age > maxBackupAge
isExpired(age) == age > maxBackupAge

LoadInit ==
  /\ impl = "Security"
  /\ now = LoadTime
  /\ pc = "readdir"
  /\ dir = <<>>
  /\ files = <<>>
  /\ fsKind = "absent" /\ tree = EmptyTree
  /\ \E v \in BackupDirs : vault = v /\ fs0 = [kind |-> "dir", tree |-> v]
  /\ stray = {}
  /\ operations = <<>>
  /\ checksums = [p \in {} |-> ""]
  /\ idx = 0
  /\ sw = NoWrite
  /\ error = "none"
  /\ result = "none"
  /\ rb = NoRollback
  /\ hist = <<>>

\* The catch of cleanupOldBackups: the error is logged and the function
\* returns; a throw of that log line leaves the constructor.
pruneCaught(logError) == IF logError = "ok" THEN "constructed" ELSE "threw"

\* const files = fs.readdirSync(this.backupDir)
Readdir ==
  /\ pc = "readdir"
  /\ \E rd \in Calls, logError \in Calls, order \in Orderings(DOMAIN vault) :
       IF rd = "ok"
         THEN /\ logError = "ok"
              /\ files' = order
              /\ idx' = 1
              /\ pc' = "forEach"
              /\ UNCHANGED <<error, hist>>
         ELSE /\ order = CHOOSE o \in Orderings(DOMAIN vault) : TRUE
              /\ pc' = pruneCaught(logError)
              /\ error' = IF logError = "ok" THEN "io" ELSE "log"
              /\ hist' = Append(hist, Ev("pruneFail", <<>>, "readdir"))
              /\ UNCHANGED <<files, idx>>
  /\ UNCHANGED <<impl, now, dir, fsKind, tree, fs0, stray, vault, operations,
                 checksums, sw, result, rb>>

\* One turn of files.forEach: statSync, the age, and for an expired file
\* unlinkSync and the debug line. A throw of any of them leaves the forEach
\* for the catch of cleanupOldBackups.
PruneEntry ==
  /\ pc = "forEach"
  /\ idx <= Len(files)
  /\ \E st \in Calls, rm \in Calls, log \in Calls, logError \in Calls :
       LET file == files[idx]
           age == now - vault[file].mtime
           expired == st = "ok" /\ isExpired(age)
           unlinked == expired /\ rm = "ok"
           failedAt == IF st = "throw" THEN "stat"
                       ELSE IF expired /\ rm = "throw" THEN "unlink"
                       ELSE IF unlinked /\ log = "throw" THEN "log"
                       ELSE "none"
       IN
       /\ ~expired => rm = "ok"
       /\ ~unlinked => log = "ok"
       /\ failedAt = "none" => logError = "ok"
       /\ vault' = IF unlinked
                     THEN [b \in DOMAIN vault \ {file} |-> vault[b]]
                     ELSE vault
       /\ IF failedAt = "none"
            THEN /\ idx' = idx + 1
                 /\ UNCHANGED <<pc, error, hist>>
            ELSE /\ idx' = idx
                 /\ pc' = pruneCaught(logError)
                 /\ error' = IF logError = "throw" \/ failedAt = "log"
                                THEN "log" ELSE "io"
                 /\ hist' = Append(hist, Ev("pruneFail", file, failedAt))
  /\ UNCHANGED <<impl, now, dir, files, fsKind, tree, fs0, stray, operations,
                 checksums, sw, result, rb>>

\* The forEach is over: cleanupOldBackups and the constructor return.
PruneEnd ==
  /\ pc = "forEach"
  /\ idx > Len(files)
  /\ pc' = "constructed"
  /\ UNCHANGED <<impl, now, dir, files, fsKind, tree, fs0, stray, vault,
                 operations, checksums, idx, sw, error, result, rb, hist>>

LoadNext ==
  \/ Readdir
  \/ PruneEntry
  \/ PruneEnd

LoadSpec == LoadInit /\ [][LoadNext]_vars

----------------------------------------------------------------------------
(* verifyIntegrity(filePath, expectedChecksum), the same in both variants, *)
(* called on a directory of files with checksums held for some of them.    *)

\* What the call gives back: the read of generateChecksum may throw (and does
\* for a missing file); verifyIntegrity's catch logs and returns false, and a
\* throw of a log line is what leaves the call.
verifyIntegrity(t, filePath, expectedChecksum, rd, log) ==
  IF rd = "throw" \/ basename(filePath) \notin DOMAIN t
    THEN IF log = "ok" THEN "false" ELSE "threw"
    ELSE IF generateChecksum(t, filePath) = expectedChecksum THEN "true"
                                                              ELSE "false"

VerifyDir == <<"d">>

VerifyPaths == { join(VerifyDir, <<"a">>), join(VerifyDir, <<"b">>) }

VerifyContents == {"v1", "v2"}

VerifyInit ==
  /\ impl \in Impls
  /\ now = 0
  /\ pc = "verify"
  /\ dir = VerifyDir
  /\ files = {}
  /\ fsKind = "dir"
  /\ \E S \in SUBSET VerifyPaths :
       \E t \in [{basename(q) : q \in S} -> VerifyContents] :
         tree = t /\ fs0 = [kind |-> "dir", tree |-> t]
  /\ stray = {}
  /\ vault = [b \in {} |-> ""]
  /\ operations = <<>>
  /\ \E S \in SUBSET VerifyPaths :
       checksums \in [S -> {Digest(c) : c \in VerifyContents}]
  /\ idx = 0
  /\ sw = NoWrite
  /\ error = "none"
  /\ result = "none"
  /\ rb = NoRollback
  /\ hist = <<>>

\* One call verifyIntegrity(filePath, this.checksums.get(filePath)).
VerifyIntegrity ==
  /\ pc = "verify"
  /\ \E filePath \in DOMAIN checksums, rd \in Calls, log \in Calls :
       LET unreadable == rd = "throw" \/ basename(filePath) \notin DOMAIN tree
       IN
       /\ ~unreadable => log = "ok"
       /\ result' = verifyIntegrity(tree, filePath, checksums[filePath], rd, log)
       /\ hist' = Append(hist, Ev("verifyIntegrity", filePath,
                                  IF unreadable THEN "unreadable" ELSE "read"))
  /\ pc' = "verified"
  /\ UNCHANGED <<impl, now, dir, files, fsKind, tree, fs0, stray, vault,
                 operations, checksums, idx, sw, error, rb>>

VerifyNext ==
  \/ VerifyIntegrity

VerifySpec == VerifyInit /\ [][VerifyNext]_vars

----------------------------------------------------------------------------
(* The file loop of createProject entered on a directory that holds some   *)
(* of the files already: the branch that asks, backs the file up and        *)
(* records an overwrite entry. createProject itself begins the loop on a    *)
(* directory it has just made.                                              *)

LoopDir == <<"p">>

\* What a file of the directory holds before the loop.
v1 == "v1"

LoopInit ==
  /\ impl \in Impls
  /\ now = 0
  /\ pc = "files"
  /\ dir = LoopDir
  /\ files \in SUBSET {defaultFiles[k] : k \in 1..Len(defaultFiles)}
  /\ fsKind = "dir"
  /\ \E S \in SUBSET {defaultFiles[k] : k \in 1..Len(defaultFiles)} :
       LET t == [n \in {sanitizeFileName(impl, f) : f \in S} |-> v1]
       IN tree = t /\ fs0 = [kind |-> "dir", tree |-> t]
  /\ stray = {}
  /\ vault = [b \in {} |-> ""]
  /\ operations = <<>>
  /\ checksums = [p \in {} |-> ""]
  /\ idx = 1
  /\ sw = NoWrite
  /\ error = "none"
  /\ result = "none"
  /\ rb = NoRollback
  /\ hist = <<>>

LoopNext ==
  \/ FileBegin
  \/ WriteTemp
  \/ WriteValidate
  \/ WriteRename
  \/ WriteChecksum
  \/ Finish
  \/ Catch
  \/ RollbackStep
  \/ RollbackEnd

LoopSpec == LoopInit /\ [][LoopNext]_vars

----------------------------------------------------------------------------
(* secureWrite called on its own: the target may exist already with any    *)
(* content, a checksum may be stored for it from an earlier write, and the  *)
(* directory may hold another file whose name is the target's name with     *)
(* ".tmp" appended.                                                         *)

WriteDir == <<"w">>

\* What the target can hold before the call.
WriteContents == {"v1", "v2"}

\* What the neighbouring file holds.
kept == "kept"

WriteInit ==
  /\ impl \in Impls
  /\ now = 0
  /\ pc = "write"
  /\ dir = WriteDir
  /\ files = {}
  /\ fsKind = "dir"
  /\ \E file \in {defaultFiles[k] : k \in 1..Len(defaultFiles)},
        held \in {"absent"} \cup WriteContents,
        stored \in {"none"} \cup WriteContents,
        neighbour \in BOOLEAN :
       LET filePath == join(WriteDir, sanitizeFileName(impl, file))
           t0 == IF held = "absent" THEN EmptyTree
                 ELSE TreeSet(EmptyTree, basename(filePath), held)
           t == IF neighbour THEN TreeSet(t0, basename(filePath \o tmp), kept)
                ELSE t0
       IN
       /\ impl = "Security" => isPathSafe(filePath)
       /\ tree = t
       /\ fs0 = [kind |-> "dir", tree |-> t]
       /\ checksums = IF stored = "none" THEN [p \in {} |-> ""]
                      ELSE [p \in {filePath} |-> Digest(stored)]
       /\ sw = [path |-> filePath, content |-> contentOf(file), temp |-> <<>>,
                prior |-> held, stage |-> "temp", failedAt |-> "none",
                cause |-> "none"]
  /\ stray = {}
  /\ vault = [b \in {} |-> ""]
  /\ operations = <<>>
  /\ idx = 1
  /\ error = "none"
  /\ result = "none"
  /\ rb = NoRollback
  /\ hist = <<>>

WriteNext ==
  \/ WriteTemp
  \/ WriteValidate
  \/ WriteRename
  \/ WriteChecksum

WriteSpec == WriteInit /\ [][WriteNext]_vars

----------------------------------------------------------------------------
(* One run of the tool on a non-empty directory while other runs of the    *)
(* tool are started: each of them loads cleanup.js, and its constructor     *)
(* prunes the backup directory all runs share under HOME.                   *)

\* A backup an earlier run left, older than maxBackupAge: this run's
\* constructor came to its catch clause before it had unlinked the file.
EarlierBackup == backupName(<<"q">>, 0, "dir")

SharedInit ==
  /\ impl = "Security"
  /\ now = LoadTime
  /\ pc = "main"
  /\ dir = <<>>
  /\ files = {}
  /\ fsKind = "dir"
  /\ tree = TreeSet(EmptyTree, old_txt, "old")
  /\ fs0 = [kind |-> fsKind, tree |-> tree]
  /\ stray = {}
  /\ vault = [b \in {EarlierBackup} |->
                [kind |-> "file", mtime |-> LoadTime - maxBackupAge - day]]
  /\ operations = <<>>
  /\ checksums = [p \in {} |-> ""]
  /\ idx = 0
  /\ sw = NoWrite
  /\ error = "none"
  /\ result = "none"
  /\ rb = NoRollback
  /\ hist = <<>>

\* cleanupOldBackups() of another run's constructor: it unlinks the files
\* older than maxBackupAge, all of them or, when a call of the forEach
\* throws, those it had come to.
cleanupOldBackups ==
  /\ \E unlinked \in SUBSET {file \in DOMAIN vault :
                                isExpired(now - vault[file].mtime)} :
       /\ unlinked # {}
       /\ vault' = [b \in DOMAIN vault \ unlinked |-> vault[b]]
  /\ UNCHANGED <<impl, now, pc, dir, files, fsKind, tree, fs0, stray,
                 operations, checksums, idx, sw, error, result, rb, hist>>

SharedNext ==
  \/ Main
  \/ PromptOverwrite
  \/ BackupDir
  \/ RmDir
  \/ Mkdir
  \/ FileBegin
  \/ WriteTemp
  \/ WriteValidate
  \/ WriteRename
  \/ WriteChecksum
  \/ Finish
  \/ Catch
  \/ RollbackStep
  \/ RollbackEnd
  \/ handleShutdown
  \/ cleanupOldBackups

SharedSpec == SharedInit /\ [][SharedNext]_vars

----------------------------------------------------------------------------
(* Properties.                                                             *)

Events(kinds) == {k \in 1..Len(hist) : hist[k].ev \in kinds}

\* The state of a target of the run: the project path or a file below it.
targetState(p) == IF p = dir THEN Snapshot ELSE fileState(p)

RollbackReturned == pc = "done" /\ rb.state = "completed"

\* C1: for a project directory that was absent, empty or non-empty, after a
\* forward pass that a failing filesystem call ended and a rollback() that
\* completed, the project path exists or not, and holds, exactly what it did
\* before the first operation of the run.
C1_RollbackRestoresInitialState ==
  (RollbackReturned /\ error = "io" /\ fs0.kind \in {"absent", "dir"})
    => (fsKind = fs0.kind /\ tree = fs0.tree)

\* C2: every removal of a project path that existed comes after a backup of
\* that path that createBackup returned.
C2_BackupPrecedesDestruction ==
  \A k \in Events({"rmSync"}) :
    hist[k].info.kind # "absent" =>
      \E j \in Events({"backup"}) : j < k /\ hist[j].path = hist[k].path

\* C3: once createBackup has thrown for a target, the target stays as it was
\* when createBackup was called, through the rest of the failed run.
C3_FailedBackupLeavesTarget ==
  \A k \in Events({"backupFail"}) : targetState(hist[k].path) = hist[k].info

C3_Witness ==
  /\ Events({"backupFail"}) # {}
  /\ RollbackReturned
  /\ fsKind = "dir" /\ DOMAIN tree # {}

WriteInFlight ==
  pc = "write" /\ sw.stage \in {"temp", "validate", "rename"}

WriteFailedBeforeCommit ==
  /\ pc = "catch"
  /\ sw.stage = "failed"
  /\ sw.failedAt \in {"temp", "validate", "rename"}

\* C4: while secureWrite has not renamed, and when it has thrown from the
\* temporary write, the validation or the rename, the target path holds what
\* it held when secureWrite was called (or is still absent).
C4_TargetUntouchedOnFailure ==
  (WriteInFlight \/ WriteFailedBeforeCommit) => fileState(sw.path) = sw.prior

C4_Witness ==
  /\ WriteFailedBeforeCommit
  /\ sw.failedAt = "rename"
  /\ sw.temp # <<>>
  /\ sw.content = "18"

\* C5: when secureWrite has thrown before its rename completed, and the
\* unlink of its own cleanup did not itself fail, the temporary file the call
\* wrote is no longer in the directory.
C5_TempRemovedOnFailure ==
  (WriteFailedBeforeCommit /\ sw.temp # <<>> /\ error # "unlink")
    => basename(sw.temp) \notin DOMAIN tree

segmentBounded(resolved, root) ==
  resolved = root \/ StartsWith(resolved, root \o <<"/">>)

\* C7: every path isPathSafe accepted is, once resolved, the home directory
\* or a path below it.
C7_AcceptedPathsAreSegmentBounded ==
  \A k \in Events({"validateOk"}) :
    segmentBounded(resolve(hist[k].path), homeDir)

Mutations == {"rmSync", "mkdirSync", "writeTemp", "rename"}

\* C8: no target is removed, created or written before its path validation
\* has succeeded; so a target whose path validation fails has not been
\* removed, created or written.
C8_ValidationPrecedesMutation ==
  \A k \in Events({"validateFail"}) :
    \A j \in Events(Mutations) : hist[j].path # hist[k].path

C10_RollbackAttemptsEveryEntry ==
  (pc = "done" /\ rb.state # "idle") => rb.attempted = Len(rb.ledger)

\* C11: when rollback() has returned and the restoring call of exactly one
\* entry k threw, what rollback reported as failed is exactly k: one failure
\* entry, for k, beside the number attempted.
C11_ReportListsExactlyTheFailedStep ==
  (RollbackReturned /\ Len(rb.failed) = 1) =>
    (rb.failures = rb.failed /\ rb.attempted = Len(rb.ledger))

\* C12: rollback() never throws: whatever the ledger holds and whichever
\* filesystem or logger calls fail in it, the call returns to createProject.
C12_RollbackNeverThrows == rb.state # "threw"

\* C13: the error that ends the forward pass is the one reported: when
\* secureWrite of the exported Security object has failed, the error that
\* createProject's catch receives and logs is the error that was thrown first
\* inside secureWrite.
C13_OriginalErrorIsReported ==
  (impl = "Security" /\ sw.stage = "failed") => error = sw.cause

C15_RollbackRunsToCompletion ==
  [][(pc = "rollback" /\ pc' # "rollback") => rb'.i > Len(operations')]_vars

\* C16: when a SIGINT or SIGTERM that arrived after the first operation of
\* the batch was recorded has ended the process, rollback() has been called
\* over the recorded operations.
C16_SignalTriggersRollback ==
  (pc = "exited" /\ operations # <<>>) => rb.state # "idle"

\* C17: when the batch has ended, by createProject returning true or by a
\* rollback() that completed, the ledger and the checksum map are empty.
C17_LedgerDiscardedAtBatchEnd ==
  (pc = "done" /\ (result = "true" \/ rb.state = "completed")) =>
    (operations = <<>> /\ DOMAIN checksums = {})

\* C18: when rollback() has returned, the ledger holds the entries it held
\* when rollback() was called, in the same order.
C18_RollbackOnlyReadsLedger ==
  RollbackReturned => operations = rb.ledger

OverwriteKinds == {"overwrite", "overwriteDir"}

\* C19: in every state of the ledger, an entry has a backupPath if and only if
\* its type is overwrite or overwriteDir.
C19_BackupRefIffOverwriteKind ==
  \A k \in 1..Len(operations) :
    ("backupPath" \in DOMAIN operations[k])
      <=> (operations[k].type \in OverwriteKinds)

C19_Witness ==
  /\ \E k \in 1..Len(operations) : operations[k].type = "overwriteDir"
  /\ \E k \in 1..Len(operations) : operations[k].type = "createDir"
  /\ \E k \in 1..Len(operations) : operations[k].type = "create"

\* C20: any two createBackup calls of one process that returned gave
\* distinct backup paths, whatever their sources and the clock readings.
C20_BackupNamesDistinct ==
  \A j, k \in Events({"createBackup"}) :
    j # k => hist[j].info # hist[k].info

\* The age cleanupOldBackups found for a file the directory held at load.
ageAtLoad(file) == now - fs0.tree[file].mtime

\* C21: when cleanupOldBackups has run with none of its calls failing, every
\* backup that was more than maxBackupAge old is gone and every backup that
\* was younger is still there.
C21_PruningByAge ==
  (pc = "constructed" /\ error = "none") =>
    \A file \in DOMAIN fs0.tree :
      /\ ageAtLoad(file) > maxBackupAge => file \notin DOMAIN vault
      /\ ageAtLoad(file) < maxBackupAge =>
            (file \in DOMAIN vault /\ vault[file] = fs0.tree[file])

C21_Witness ==
  /\ pc = "constructed" /\ error = "none"
  /\ \E file \in DOMAIN fs0.tree : ageAtLoad(file) = 8 * day
  /\ \E file \in DOMAIN fs0.tree : ageAtLoad(file) = 1 * day
  /\ Cardinality(DOMAIN vault) < Cardinality(DOMAIN fs0.tree)

\* C22: when cleanupOldBackups has ended, having listed the directory, every
\* backup older than maxBackupAge is gone, apart from one whose own stat or
\* unlink failed.
C22_PruningSkipsFailedEntry ==
  (pc = "constructed" /\ files # <<>>) =>
    \A file \in DOMAIN fs0.tree :
      (ageAtLoad(file) > maxBackupAge /\ file \in DOMAIN vault) =>
        \E k \in Events({"pruneFail"}) : hist[k].path = file

\* C23: verifyIntegrity on a path that cannot be read gives back no boolean:
\* its failure reaches the caller.
C23_VerifyPropagatesReadError ==
  \A k \in Events({"verifyIntegrity"}) :
    hist[k].info = "unreadable" => result \notin {"true", "false"}

\* C24: when createProject has failed and has reported "Rollback completed
\* successfully", every step of the rollback succeeded.
C24_ReportedRollbackOutcomeIsTrue ==
  (pc = "done" /\ result = "false" /\ rb.state = "completed")
    => rb.failed = <<>>

ForwardEvents ==
  {"validateOk", "validateFail", "backup", "backupFail", "rmSync",
   "mkdirSync", "writeTemp", "rename"}

WriteStages == {"temp", "validate", "rename", "checksum"}

\* C25: one step at a time, and the passes do not mix: a secureWrite is under
\* way only while createProject stands in it, and from the call of rollback()
\* on no forward step is taken and no entry is recorded.
C25_SingleSequentialActor ==
  [][/\ sw.stage \in WriteStages => pc = "write"
     /\ rb.state # "idle" =>
          /\ \A k \in (Len(hist) + 1)..Len(hist') :
                hist'[k].ev \notin ForwardEvents
          /\ sw' = sw
          /\ Len(operations') = Len(operations)]_vars

C25_Witness ==
  /\ pc = "done"
  /\ rb.state = "completed"
  /\ sw.stage = "failed"
  /\ Cardinality(Events({"rollback"})) >= 2

\* C26: every rollback step outcome that is logged is a log entry with the
\* operationId of the batch, the one rollback's opening entry carries.
C26_LogEntriesCarryOperationId ==
  \A k \in Events({"log"}) : hist[k].info.operationId = operationId

\* The rollback step for the entry under rb.i is being taken and its
\* filesystem call does not fail.
StepSucceeds ==
  /\ pc = "rollback"
  /\ Len(rb'.visited) = Len(rb.visited) + 1
  /\ rb'.failed = rb.failed

\* What createBackup copied for the path: what the path held at that call.
backedUp(path) ==
  hist[CHOOSE k \in Events({"backup"}) : hist[k].path = path].info

\* C27: a file that was backed up and then overwritten holds, right after the
\* rollback step of its overwrite entry, exactly what it held when
\* createBackup copied it.
C27_FileBackupRestoreRoundTrip ==
  [][(StepSucceeds /\ operations[rb.i].type = "overwrite") =>
       /\ fsKind' = "dir"
       /\ basename(operations[rb.i].path) \in DOMAIN tree'
       /\ tree'[basename(operations[rb.i].path)]
            = backedUp(operations[rb.i].path)]_vars

C27_Witness ==
  /\ pc = "done"
  /\ rb.state = "completed"
  /\ rb.failed = <<>>
  /\ \E k \in Events({"rollback"}) :
       /\ hist[k].info = "overwrite"
       /\ fileState(hist[k].path) = v1
       /\ \E j \in Events({"rename"}) : j < k

C29_LedgerAppendOnly ==
  [][(rb'.state = "idle" /\ operations' # operations) =>
       /\ Len(operations') = Len(operations) + 1
       /\ SubSeq(operations', 1, Len(operations)) = operations]_vars

C29_Witness ==
  /\ rb.state = "idle"
  /\ Len(operations) >= 3
  /\ operations[1].type = "overwriteDir"
  /\ operations[2].type = "createDir"
  /\ operations[3].type = "create"

\* C30: every path that has a stored checksum and is on disk holds content
\* whose digest is the stored checksum.
C30_ChecksumsMatchDisk ==
  \A path \in DOMAIN checksums :
    existsFile(path) => checksums[path] = Digest(fileState(path))

\* The target existed when secureWrite was called, and the checksum stored
\* for it is not the digest of what it held.
TamperedAtCall ==
  /\ sw.prior # "absent"
  /\ sw.path \in DOMAIN checksums
  /\ checksums[sw.path] # Digest(sw.prior)

\* C31: a secureWrite on an existing path whose content does not match its
\* stored checksum never gets past the integrity test to the rename, and
\* when the test has failed the call the target holds what it held and the
\* temporary file is gone (unless the unlink itself failed).
C31_IntegrityCheckedBeforeOverwrite ==
  (TamperedAtCall /\ sw.stage \in {"rename", "checksum", "failed"}) =>
    /\ sw.stage = "failed"
    /\ sw.cause = "integrity" =>
         /\ fileState(sw.path) = sw.prior
         /\ error # "unlink" => basename(sw.path \o tmp) \notin DOMAIN tree

\* C32: at every point of a secureWrite call and after it, each file the
\* directory held at the call other than the target is there with the
\* content it had, and the only names added are the target's and the
\* temporary file's.
C32_WriteTouchesOnlyItsOwnFiles ==
  /\ \A n \in DOMAIN fs0.tree \ {basename(sw.path)} :
       n \in DOMAIN tree /\ tree[n] = fs0.tree[n]
  /\ \A n \in DOMAIN tree \ DOMAIN fs0.tree :
       \/ n = basename(sw.path)
       \/ \E hex \in RandomHex : n = basename(tempPath(impl, sw.path, hex))

\* C33: when secureWrite has thrown, at whatever step, the target holds what
\* it held when secureWrite was called (or is still absent).
C33_ThrownWriteHasNotCommitted ==
  (pc = "catch" /\ sw.stage = "failed") => fileState(sw.path) = sw.prior

\* The file has a create entry that stands after a createDir entry.
createdAfterDir(path) ==
  \E i, j \in 1..Len(operations) :
    /\ i < j
    /\ operations[i].type = "createDir"
    /\ operations[j] = [type |-> "create", path |-> path]

\* C34: when createProject has ended, it returned true only if no step
\* threw, and if no step threw it returned true or, the user having
\* declined, false; after true rollback was never
\* called and every selected file is in the project directory with a create
\* entry after the createDir entry; after false with no step having thrown
\* (the user declined) the project path and the vault are as they were and
\* the ledger is empty.
C34_ReturnValueOfCreateProject ==
  pc = "done" =>
    /\ error = "none" => result \in {"true", "false"}
    /\ result = "true" =>
         /\ error = "none"
         /\ rb.state = "idle"
         /\ \A file \in files :
              /\ existsFile(join(dir, sanitizeFileName(impl, file)))
              /\ createdAfterDir(join(dir, sanitizeFileName(impl, file)))
    /\ (result = "false" /\ error = "none") =>
         /\ Snapshot = fs0
         /\ isDirectoryNotEmpty
         /\ vault = [b \in {} |-> ""]
         /\ operations = <<>>
         /\ rb.state = "idle"

C34_Witness ==
  /\ pc = "done"
  /\ result = "true"
  /\ Cardinality(files) = MaxFiles
  /\ fs0.kind = "dir" /\ DOMAIN fs0.tree # {}

\* The batch is in flight: createProject has neither returned nor been
\* ended by a signal.
BatchInFlight == pc \notin {"done", "exited"}

\* C35: while the batch is in flight, every backup an entry of the ledger
\* refers to is in the backup directory, whatever pruning has run.
C35_PruningSparesLedgerBackups ==
  BatchInFlight =>
    \A k \in 1..Len(operations) :
      "backupPath" \in DOMAIN operations[k]
        => operations[k].backupPath \in DOMAIN vault

C35_Witness ==
  /\ BatchInFlight
  /\ EarlierBackup \notin DOMAIN vault
  /\ \E k \in 1..Len(operations) :
       /\ "backupPath" \in DOMAIN operations[k]
       /\ ~isExpired(now - vault[operations[k].backupPath].mtime)

Next ==
  \/ Main
  \/ PromptOverwrite
  \/ BackupDir
  \/ RmDir
  \/ Mkdir
  \/ FileBegin
  \/ WriteTemp
  \/ WriteValidate
  \/ WriteRename
  \/ WriteChecksum
  \/ Finish
  \/ Catch
  \/ RollbackStep
  \/ RollbackEnd
  \/ handleShutdown

Spec == Init /\ [][Next]_vars
====
